---- MODULE Spec2Model ----
(***************************************************************************)
(* A model of main.py: the customs-portal query engine                     *)
(* (CustomsQuery.fetch_data, CustomsQuery._parse_json_list) and the        *)
(* two-identifier query flow of main() (start_query, task, apply_filter,   *)
(* show_results).                                                          *)
(*                                                                         *)
(* Python str values are sequences of one-character strings, so that      *)
(* strip(), slicing, int() and str() are computed and not assumed.  A      *)
(* JSON value is a record tagged by its type (JNull, JInt, JStr, JList); a *)
(* JSON object / Python dict is a record whose DOMAIN is its key set.      *)
(* The two markers of the normalizer are written with one token per        *)
(* character (the pinyin of a non-ASCII character), which keeps their      *)
(* length; a fixed message of the display is written as one English token. *)
(***************************************************************************)
EXTENDS Integers, Sequences, FiniteSets, TLC

VARIABLES
    \* ---- CustomsQuery instance and the frame of one fetch_data call ----
    session,          \* self.session: the cookie jar, "fresh" or "used"
    fetch_pc,         \* "idle" | "loop" | "answered" | "returned" | "raised"
    vsl_reg_no,       \* argument of fetch_data
    query_code,       \* argument of fetch_data (after the None default)
    status_callback,  \* TRUE iff a progress callback was passed
    all_results,      \* fetch_data's local accumulator
    current_page,     \* fetch_data's local page counter
    fetch_ret,        \* the list fetch_data returned
    resp,             \* the portal's answer to the POST of this pass; NoResp
                      \* at the head of a pass, before its POST
    posts,            \* history: the POSTs this call has sent
    served,           \* history: the row counts of the pages accumulated
    const_total,      \* history: the totals T such that every answer so far
                      \* is the answer of a portal that holds exactly T rows
    \* ---- main(): controls and closure state ----
    txt_south,        \* txt_south.value
    txt_north,        \* txt_north.value
    txt_filter_so,    \* txt_filter_so.value
    client_storage,   \* page.client_storage: [south, north]
    status_text,      \* status_text.value
    loading,          \* loading.visible
    btn_disabled,     \* btn_query.disabled
    result_list,      \* result_list.controls, what the list view shows
    main_all_results, \* main()'s all_results, the cache the filter reads
    \* ---- the background thread running task() ----
    task_pc,          \* "none" | "start" | "south" | "mid" | "north" | "finish"
    south_code,       \* start_query's stripped south identifier
    north_code,       \* start_query's stripped north identifier
    data_south,       \* task's local: <<>> before the south run returns,
                      \* then <<the list it returned>>
    data_north,       \* task's local, likewise
    combined_results, \* task's local
    error_messages,   \* task's local
    \* ---- the harness of the normalizer ----
    raw_row,          \* a raw row to normalize
    norm_out          \* _parse_json_list's output for <<raw_row>>, or <<>>

engine_vars == <<session, fetch_pc, vsl_reg_no, query_code, status_callback,
                 all_results, current_page, fetch_ret, resp, posts,
                 served, const_total>>
ui_vars == <<txt_south, txt_north, txt_filter_so, client_storage, status_text,
             loading, btn_disabled, result_list, main_all_results>>
task_vars == <<task_pc, south_code, north_code, data_south, data_north,
               combined_results, error_messages>>
norm_vars == <<raw_row, norm_out>>
vars == <<engine_vars, ui_vars, task_vars, norm_vars>>

(***************************************************************************)
(* Bounds of the model.                                                    *)
(***************************************************************************)
\* pages one fetch_data call may request before the model stops following it
MaxPages == 3
\* the same bound for calls made by task()
AppMaxPages == 2

(***************************************************************************)
(* Python helpers.                                                         *)
(***************************************************************************)
Min(a, b) == IF a <= b THEN a ELSE b

Digits == <<"0", "1", "2", "3", "4", "5", "6", "7", "8", "9">>

DigitChars == {Digits[i] : i \in 1..10}

DigitVal(c) == (CHOOSE i \in 1..10 : Digits[i] = c) - 1

\* str.isspace() for the characters of the model's alphabet
IsSpace(c) == c = " "

RECURSIVE LStrip(_)
LStrip(s) == IF s # <<>> /\ IsSpace(Head(s)) THEN LStrip(Tail(s)) ELSE s

RECURSIVE RStrip(_)
RStrip(s) ==
    IF s # <<>> /\ IsSpace(s[Len(s)]) THEN RStrip(SubSeq(s, 1, Len(s) - 1)) ELSE s

\* str.strip()
Strip(s) == RStrip(LStrip(s))

\* s[a:b] for 0 <= a <= b: a slice never fails, it is cut at the end of s
Slice(s, a, b) == SubSeq(s, a + 1, Min(b, Len(s)))

RECURSIVE NatToStr(_)
NatToStr(n) ==
    IF n < 10 THEN <<Digits[n + 1]>>
    ELSE NatToStr(n \div 10) \o <<Digits[(n % 10) + 1]>>

\* str(n) of an int
IntToStr(n) == IF n < 0 THEN <<"-">> \o NatToStr(-n) ELSE NatToStr(n)

RECURSIVE DigitsToNat(_)
DigitsToNat(s) ==
    IF s = <<>> THEN 0
    ELSE 10 * DigitsToNat(SubSeq(s, 1, Len(s) - 1)) + DigitVal(s[Len(s)])

AllDigits(s) == s # <<>> /\ \A i \in 1..Len(s) : s[i] \in DigitChars

(***************************************************************************)
(* JSON values.                                                            *)
(***************************************************************************)
JNull == [t |-> "null"]
JInt(v) == [t |-> "int", v |-> v]
JStr(s) == [t |-> "str", s |-> s]
JList == [t |-> "list"]

\* dict.get(key, default)
Get(d, key, default) == IF key \in DOMAIN d THEN d[key] ELSE default

\* int(x) of a str: surrounding whitespace, an optional sign, decimal digits.
\* The result is [ok |-> TRUE, v |-> n] or [ok |-> FALSE] for a ValueError.
IntOfStr(s) ==
    LET u == Strip(s)
        signed == u # <<>> /\ Head(u) \in {"+", "-"}
        body == IF signed THEN Tail(u) ELSE u
    IN  IF AllDigits(body)
        THEN [ok |-> TRUE,
              v |-> IF signed /\ Head(u) = "-" THEN -DigitsToNat(body)
                    ELSE DigitsToNat(body)]
        ELSE [ok |-> FALSE]

\* int(x) of a JSON value that is not None
PyInt(x) ==
    CASE x.t = "int" -> [ok |-> TRUE, v |-> x.v]
      [] x.t = "str" -> IntOfStr(x.s)
      [] OTHER -> [ok |-> FALSE]      \* TypeError: a list, a dict

(***************************************************************************)
(* CustomsQuery._parse_json_list                                           *)
(***************************************************************************)
\* "尚無時間", the marker of a row without a warehousing time
NoTimeYet == <<"shang", "wu", "shi", "jian">>

\* "無 S/O", the default of a row without the soNo key
NoSO == <<"wu", " ", "S", "/", "O">>

\* bool(x) of a JSON value
Truthy(x) ==
    CASE x.t = "null" -> FALSE
      [] x.t = "int" -> x.v # 0
      [] x.t = "str" -> x.s # <<>>
      [] OTHER -> TRUE

\* mutant of FmtDate: the time read right after the date, at offsets 8 and 10
FmtDate_Contiguous(row) ==
    LET raw_date == Get(row, "inWareDate1", JNull)
    IN  IF Truthy(raw_date) /\ raw_date.t = "str" /\ Len(raw_date.s) >= 12
        THEN Slice(raw_date.s, 0, 4) \o <<"/">> \o Slice(raw_date.s, 4, 6)
                \o <<"/">> \o Slice(raw_date.s, 6, 8) \o <<" ">>
                \o Slice(raw_date.s, 8, 10) \o <<":">> \o Slice(raw_date.s, 10, 12)
        ELSE NoTimeYet

\* lines 127-139: the date field of one row
FmtDate(row) ==
    LET raw_date == Get(row, "inWareDate1", JNull)
    IN  IF Truthy(raw_date) /\ raw_date.t = "str" /\ Len(raw_date.s) >= 12
        THEN LET yyyy == Slice(raw_date.s, 0, 4)
                 mm == Slice(raw_date.s, 4, 6)
                 dd == Slice(raw_date.s, 6, 8)
                 hh == Slice(raw_date.s, 9, 11)
                 minute == Slice(raw_date.s, 11, 13)
             IN  yyyy \o <<"/">> \o mm \o <<"/">> \o dd \o <<" ">> \o hh
                      \o <<":">> \o minute
        ELSE NoTimeYet

\* lines 141-146: the quantity field of one row
QtyStr(row) ==
    LET qty == Get(row, "packQty1", JNull)
    IN  IF qty.t # "null"
        THEN LET n == PyInt(qty)
             IN  IF n.ok THEN IntToStr(n.v) ELSE <<"0">>
        ELSE <<"0">>

\* mutant of Item: the identifier not passed on, so that it is the default
Item_Untagged(row, qc) ==
    [so_no |-> Get(row, "soNo", JStr(NoSO)),
     decl_no |-> Get(row, "declNo", JStr(<<>>)),
     vsl_name |-> Get(row, "vslName", JStr(<<>>)),
     qty |-> QtyStr(row),
     date |-> FmtDate(row),
     query_code |-> <<>>]

\* lines 148-155: the item built from one row
Item(row, qc) ==
    [so_no |-> Get(row, "soNo", JStr(NoSO)),
     decl_no |-> Get(row, "declNo", JStr(<<>>)),
     vsl_name |-> Get(row, "vslName", JStr(<<>>)),
     qty |-> QtyStr(row),
     date |-> FmtDate(row),
     query_code |-> qc]

parse_json_list(raw_list, qc) ==
    [i \in 1..Len(raw_list) |-> Item(raw_list[i], qc)]

(***************************************************************************)
(* The portal, as fetch_data sees it: the answer to one POST.              *)
(*   kind "exc"       session.post raised (connection error, timeout)      *)
(*   kind "status"    a response whose status code is not 200              *)
(*   kind "badjson"   a 200 response whose body resp.json() cannot parse   *)
(*   kind "nonobject" a 200 response whose body is JSON but not an object  *)
(*   kind "json"      a 200 response whose body is a JSON object, with or  *)
(*                    without the keys total and data; n rows in data      *)
(***************************************************************************)
page_size == 500

\* the row the portal returns at position i of page p
ServerRow(p, i) ==
    LET base == [soNo |-> JStr(<<"P">> \o NatToStr(p) \o <<"-">> \o NatToStr(i)),
                 vslName |-> JStr(<<"V">>)]
    IN  CASE i % 3 = 0 -> base
          [] i % 3 = 1 -> base @@ [packQty1 |-> JInt(i)]
          [] OTHER -> base @@ [packQty1 |-> JNull, declNo |-> JStr(<<"D">>)]

ServerRows(p, n) == IF n = 0 THEN <<>> ELSE [i \in 1..n |-> ServerRow(p, i)]

Failure(kind) ==
    [kind |-> kind, has_total |-> FALSE, total |-> 0, has_data |-> FALSE, n |-> 0]

JsonBody(has_total, total, has_data, n) ==
    [kind |-> "json", has_total |-> has_total, total |-> total,
     has_data |-> has_data, n |-> n]

FailureKinds == {"exc", "status", "badjson"}

\* the row counts and totals the portal may answer with, given the number
\* acc of rows it has served to this call so far
RowCounts == {0, 1, 200, page_size}

Totals(acc, n) == {0, 3, page_size, 1200, acc + n + 1}

Responses(acc) ==
    {Failure(k) : k \in FailureKinds \cup {"nonobject"}}
    \cup UNION {{JsonBody(TRUE, t, TRUE, n) : t \in Totals(acc, n)} : n \in RowCounts}
    \cup {JsonBody(FALSE, 0, TRUE, n) : n \in RowCounts}
    \cup {JsonBody(TRUE, t, FALSE, 0) : t \in {0, 1200}}
    \cup {JsonBody(FALSE, 0, FALSE, 0)}

\* the answers task()'s calls are followed with: the same kinds, few rows
AppResponses(acc) ==
    {Failure(k) : k \in FailureKinds \cup {"nonobject"}}
    \cup {JsonBody(TRUE, t, TRUE, n) : t \in {0, 1, 3}, n \in {0, 1}}

\* the error entries of lines 77, 83 and 90
ErrorEntry(kind) ==
    CASE kind = "exc" -> [error |-> <<"connection failed: ", "e">>]
      [] kind = "status" -> [error |-> <<"server error: HTTP ", "status_code">>]
      [] kind = "badjson" -> [error |-> <<"parse error: ", "e">>,
                              raw |-> <<"resp.text[:200]">>]

(***************************************************************************)
(* CustomsQuery.fetch_data                                                 *)
(***************************************************************************)
\* a text of the display: a fixed message and what is formatted into it
Status(msg, arg) == <<msg>> \o arg

NoResp == Failure("none")

\* line 93: json_data.get("total", 0)
total_count(r) == IF r.has_total THEN r.total ELSE 0

\* line 94: json_data.get("data", [])
raw_data(r, page) == IF r.has_data THEN ServerRows(page, r.n) ELSE <<>>

\* mutants of NothingFetched: the test forgotten on either side
NothingFetched_Always(acc) == TRUE

NothingFetched_Never(acc) == FALSE

\* lines 76, 82, 89: `not all_results`
NothingFetched(acc) == acc = <<>>

\* mutant of FetchedAll: > for >=
FetchedAll_Strict(acc, total) == Len(acc) > total

\* line 105: the stop condition
FetchedAll(acc, total) == Len(acc) >= total

\* the loop is left and the list returned
Returns(list, acc, page) ==
    [pc |-> "returned", ret |-> list, all |-> acc, page |-> page]

\* lines 74-91: the three failures of a page
OnFailure(acc, page, kind) ==
    IF NothingFetched(acc) THEN Returns(<<ErrorEntry(kind)>>, acc, page)
    ELSE Returns(acc, acc, page)

\* mutant of OnJson: the test of line 97 left out, so that a page without
\* rows is handled like any other page
OnJson_KeepGoing(acc, page, qc, r) ==
    LET acc2 == acc \o parse_json_list(raw_data(r, page), qc)
    IN  IF FetchedAll(acc2, total_count(r))
        THEN Returns(acc2, acc2, page)
        ELSE [pc |-> "loop", ret |-> <<>>, all |-> acc2, page |-> page + 1]

\* lines 93-109: a parsed JSON object
OnJson(acc, page, qc, r) ==
    LET rows == raw_data(r, page)
    IN  IF rows = <<>>
        THEN Returns(acc, acc, page)
        ELSE LET acc2 == acc \o parse_json_list(rows, qc)
             IN  IF FetchedAll(acc2, total_count(r))
                 THEN Returns(acc2, acc2, page)
                 ELSE [pc |-> "loop", ret |-> <<>>, all |-> acc2, page |-> page + 1]

\* lines 74-110: the rest of a pass of the loop, given the portal's answer r
Iteration(acc, page, qc, r) ==
    CASE r.kind \in FailureKinds -> OnFailure(acc, page, r.kind)
      [] r.kind = "nonobject" ->
            [pc |-> "raised", ret |-> <<>>, all |-> acc, page |-> page]
      [] OTHER -> OnJson(acc, page, qc, r)

\* the totals a portal holding exactly T rows is consistent with after the
\* answer r to the request for page p
ConsistentWith(T, p, r) ==
    /\ r.kind = "json" /\ r.has_total /\ r.has_data
    /\ r.total = T
    /\ r.n = Min(page_size, IF T > page_size * (p - 1) THEN T - page_size * (p - 1)
                            ELSE 0)

\* the totals followed by const_total
ConstTotals == {0, page_size, 1200}

\* lines 28-45: the call, up to the head of the loop.  The warm-up GET is
\* sent on self.session whether or not it succeeds.
EnterFetch(code, qc, cb) ==
    /\ fetch_pc = "idle"
    /\ fetch_pc' = "loop"
    /\ vsl_reg_no' = code
    /\ query_code' = IF qc = JNull THEN code ELSE qc.s
    /\ status_callback' = cb
    /\ session' = "used"
    /\ all_results' = <<>>
    /\ current_page' = 1
    /\ fetch_ret' = <<>>
    /\ resp' = NoResp
    /\ posts' = 0
    /\ served' = <<>>
    /\ const_total' = ConstTotals

\* lines 48-73: the progress report and the POST of page current_page, which
\* the portal answers with r (or which raises: kind "exc")
Post(r, cap) ==
    /\ fetch_pc = "loop"
    /\ current_page <= cap
    /\ fetch_pc' = "answered"
    /\ resp' = r
    /\ posts' = posts + 1
    /\ const_total' = {T \in const_total : ConsistentWith(T, current_page, r)}
    /\ status_text' = IF status_callback THEN Status("reading page ", NatToStr(current_page))
                      ELSE status_text
    /\ UNCHANGED <<session, vsl_reg_no, query_code, status_callback, all_results,
                   current_page, fetch_ret, served>>

\* lines 74-110: the answer is handled, up to the next head of the loop or
\* to the return
Handle ==
    /\ fetch_pc = "answered"
    /\ LET out == Iteration(all_results, current_page, query_code, resp)
       IN  /\ fetch_pc' = out.pc
           /\ all_results' = out.all
           /\ current_page' = out.page
           /\ fetch_ret' = out.ret
           /\ served' = IF out.all # all_results THEN Append(served, resp.n)
                        ELSE served
           /\ resp' = IF out.pc = "loop" THEN NoResp ELSE resp
    /\ UNCHANGED <<session, vsl_reg_no, query_code, status_callback, posts,
                   const_total, status_text>>

\* the frame of a finished call is gone
LeaveFetch ==
    /\ fetch_pc \in {"returned", "raised"}
    /\ fetch_pc' = "idle"
    /\ vsl_reg_no' = <<>>
    /\ query_code' = <<>>
    /\ status_callback' = FALSE
    /\ all_results' = <<>>
    /\ current_page' = 1
    /\ fetch_ret' = <<>>
    /\ resp' = NoResp
    /\ posts' = 0
    /\ served' = <<>>
    /\ const_total' = ConstTotals
    /\ UNCHANGED session

(***************************************************************************)
(* A caller of fetch_data alone: an identifier, with or without a          *)
(* query_code, no progress callback.                                       *)
(***************************************************************************)
Codes == {<<"S", "1">>}

QueryCodes == {JNull, JStr(<<"N", "2">>)}

rest_vars == <<txt_south, txt_north, txt_filter_so, client_storage, loading,
               btn_disabled, result_list, main_all_results, task_vars, norm_vars>>

Call ==
    /\ task_pc = "none"
    /\ \E code \in Codes, qc \in QueryCodes : EnterFetch(code, qc, FALSE)
    /\ UNCHANGED <<status_text, rest_vars>>

Fetch ==
    /\ task_pc = "none"
    /\ \E r \in Responses(Len(all_results)) : Post(r, MaxPages)
    /\ UNCHANGED rest_vars

Answer ==
    /\ task_pc = "none"
    /\ Handle
    /\ UNCHANGED rest_vars

Return ==
    /\ task_pc = "none"
    /\ LeaveFetch
    /\ UNCHANGED <<status_text, rest_vars>>

NextEngine == Call \/ Fetch \/ Answer \/ Return

(***************************************************************************)
(* main(): show_results, apply_filter                                      *)
(***************************************************************************)
\* the controls of result_list: a text line or the card of one item
TextCtl(text) == [kind |-> "text", text |-> text, item |-> <<>>]

Card(item) == [kind |-> "card", text |-> <<>>, item |-> <<item>>]

\* lines 385-389, 403-407 and 234: the test that tells an error list
IsErrorList(data) == data # <<>> /\ "error" \in DOMAIN data[1]

\* lines 226-315: the controls show_results(data) leaves in result_list
show_results(data) ==
    IF data = <<>> THEN <<TextCtl(Status("no data found", <<>>))>>
    ELSE IF IsErrorList(data)
    THEN <<TextCtl(Status("error: ", data[1].error))>>
            \o (IF "raw" \in DOMAIN data[1] /\ data[1].raw # <<>>
                THEN <<TextCtl(Status("server response excerpt: ", data[1].raw))>>
                ELSE <<>>)
    ELSE [i \in 1..Len(data) |-> Card(data[i])]

\* str.lower() on the letters of the model's alphabet
LowerChar(c) ==
    CASE c = "P" -> "p"
      [] c = "X" -> "x"
      [] c = "S" -> "s"
      [] c = "O" -> "o"
      [] c = "N" -> "n"
      [] OTHER -> c

Lower(str) == [i \in 1..Len(str) |-> LowerChar(str[i])]

\* str(x) of a JSON value
PyStr(x) ==
    CASE x.t = "str" -> x.s
      [] x.t = "int" -> IntToStr(x.v)
      [] x.t = "null" -> <<"N", "o", "n", "e">>
      [] OTHER -> <<"[", "]">>

\* `a in b` of two strs
Contains(a, b) ==
    \E k \in 0..(Len(b) - Len(a)) : SubSeq(b, k + 1, k + Len(a)) = a

\* lines 329-333: the items whose S/O contains the keyword
Filtered(items, keyword) ==
    SelectSeq(items, LAMBDA item : Contains(Lower(keyword), Lower(PyStr(item.so_no))))

\* lines 318-334: the controls apply_filter() leaves in result_list
apply_filter(cache, filter_text) ==
    LET keyword == Strip(filter_text)
    IN  IF cache = <<>> THEN show_results(<<>>)
        ELSE IF keyword = <<>> THEN show_results(cache)
        ELSE show_results(Filtered(cache, keyword))

(***************************************************************************)
(* main(): start_query and the thread running task()                       *)
(***************************************************************************)
\* mutant of NothingEntered: the validation left out
NothingEntered_Never(south, north) == FALSE

\* line 345: neither identifier was entered
NothingEntered(south, north) == south = <<>> /\ north = <<>>

\* lines 390 and 408: the message of a failed run
FailureMessage(who, code, data) ==
    <<who>> \o code \o <<" query failed: ">> \o data[1].error

RECURSIVE Join(_, _)
\* sep.join(msgs)
Join(sep, msgs) ==
    IF msgs = <<>> THEN <<>>
    ELSE IF Len(msgs) = 1 THEN msgs[1]
    ELSE msgs[1] \o <<sep>> \o Join(sep, Tail(msgs))

\* mutant of AllFailedCase: the test of error_messages left out
AllFailedCase_NoRecords(combined, errors) == combined = <<>>

\* line 417: every identifier failed
AllFailedCase(combined, errors) == combined = <<>> /\ errors # <<>>

\* mutant of CacheAtEnd: the cache assigned on every path
CacheAtEnd_Always(cache, combined, errors) == combined

\* lines 417-436: main()'s all_results after the end of a query; it is
\* assigned on the paths of lines 431 and 436 only
CacheAtEnd(cache, combined, errors) ==
    IF AllFailedCase(combined, errors) THEN cache ELSE combined

\* what the user may have typed into the three text fields
SouthInputs == {<<>>, <<" ">>, <<" ", "S">>}

NorthInputs == {<<>>, <<"N", " ">>}

FilterInputs == {<<>>, <<"p", "2">>, <<" ", "X">>}

\* the click on btn_query, with the identifiers as typed: lines 339-363 and
\* the start of the thread at line 461.  k of the two client_storage.set
\* calls succeed before one raises.
start_query(south_text, north_text, k) ==
    /\ ~btn_disabled
    /\ txt_south' = south_text
    /\ txt_north' = north_text
    /\ LET south == Strip(south_text)
           north == Strip(north_text)
       IN  IF NothingEntered(south, north)
           THEN /\ status_text' = Status("enter a south or north code first", <<>>)
                /\ UNCHANGED <<client_storage, loading, btn_disabled, result_list,
                               task_vars>>
           ELSE /\ client_storage' =
                      [south |-> IF k >= 1 THEN south ELSE client_storage.south,
                       north |-> IF k >= 2 THEN north ELSE client_storage.north]
                /\ loading' = TRUE
                /\ btn_disabled' = TRUE
                /\ status_text' = Status("query started...", <<>>)
                /\ result_list' = <<>>
                /\ task_pc' = "start"
                /\ south_code' = south
                /\ north_code' = north
                /\ UNCHANGED <<data_south, data_north, combined_results,
                               error_messages>>
    /\ UNCHANGED <<engine_vars, txt_filter_so, main_all_results, norm_vars>>

Click ==
    \E south_text \in SouthInputs, north_text \in NorthInputs, k \in 0..2 :
        start_query(south_text, north_text, k)

\* the on_change handler of txt_filter_so: line 336
FilterChange ==
    /\ \E text \in FilterInputs :
        /\ txt_filter_so' = text
        /\ result_list' = apply_filter(main_all_results, text)
    /\ UNCHANGED <<engine_vars, txt_south, txt_north, client_storage, status_text,
                   loading, btn_disabled, main_all_results, task_vars, norm_vars>>

task_frame == <<txt_south, txt_north, txt_filter_so, client_storage, loading,
                btn_disabled, result_list, main_all_results, south_code,
                north_code, norm_vars>>

\* lines 373-384: the locals, and the south run is entered if there is a
\* south identifier
TaskStart ==
    /\ task_pc = "start"
    /\ combined_results' = <<>>
    /\ error_messages' = <<>>
    /\ data_south' = <<>>
    /\ data_north' = <<>>
    /\ IF south_code # <<>>
       THEN /\ EnterFetch(south_code, JStr(south_code), TRUE)
            /\ status_text' = Status("querying south: ", south_code)
            /\ task_pc' = "south"
       ELSE /\ task_pc' = "mid"
            /\ UNCHANGED <<engine_vars, status_text>>
    /\ UNCHANGED task_frame

\* a pass of fetch_data's loop, in the thread
TaskFetch ==
    /\ task_pc \in {"south", "north"}
    /\ \E r \in AppResponses(Len(all_results)) : Post(r, AppMaxPages)
    /\ UNCHANGED <<task_frame, task_pc, data_south, data_north, combined_results,
                   error_messages>>

TaskAnswer ==
    /\ task_pc \in {"south", "north"}
    /\ Handle
    /\ UNCHANGED <<task_frame, task_pc, data_south, data_north, combined_results,
                   error_messages>>

\* mutant of Extend: the new records put in front
Extend_Front(list, more) == more \o list

\* lines 392 and 410: list.extend(more)
Extend(list, more) == list \o more

\* lines 385-392: the south run has returned
TaskSouthDone ==
    /\ task_pc = "south"
    /\ fetch_pc = "returned"
    /\ data_south' = <<fetch_ret>>
    /\ IF IsErrorList(fetch_ret)
       THEN /\ error_messages' =
                  Append(error_messages, FailureMessage("south ", south_code, fetch_ret))
            /\ UNCHANGED combined_results
       ELSE /\ combined_results' = Extend(combined_results, fetch_ret)
            /\ UNCHANGED error_messages
    /\ LeaveFetch
    /\ task_pc' = "mid"
    /\ UNCHANGED <<task_frame, status_text, data_north>>

\* lines 395-402: the north run is entered if there is a north identifier
TaskMid ==
    /\ task_pc = "mid"
    /\ IF north_code # <<>>
       THEN /\ EnterFetch(north_code, JStr(north_code), TRUE)
            /\ status_text' = Status("querying north: ", north_code)
            /\ task_pc' = "north"
       ELSE /\ task_pc' = "finish"
            /\ UNCHANGED <<engine_vars, status_text>>
    /\ UNCHANGED <<task_frame, data_south, data_north, combined_results,
                   error_messages>>

\* lines 403-410: the north run has returned
TaskNorthDone ==
    /\ task_pc = "north"
    /\ fetch_pc = "returned"
    /\ data_north' = <<fetch_ret>>
    /\ IF IsErrorList(fetch_ret)
       THEN /\ error_messages' =
                  Append(error_messages, FailureMessage("north ", north_code, fetch_ret))
            /\ UNCHANGED combined_results
       ELSE /\ combined_results' = Extend(combined_results, fetch_ret)
            /\ UNCHANGED error_messages
    /\ LeaveFetch
    /\ task_pc' = "finish"
    /\ UNCHANGED <<task_frame, status_text, data_south>>

\* task() returns: the thread and its locals are gone
TaskEnds ==
    /\ task_pc' = "none"
    /\ south_code' = <<>>
    /\ north_code' = <<>>
    /\ data_south' = <<>>
    /\ data_north' = <<>>
    /\ combined_results' = <<>>
    /\ error_messages' = <<>>

\* lines 412-446: the end of the query
TaskFinish ==
    /\ task_pc = "finish"
    /\ loading' = FALSE
    /\ btn_disabled' = FALSE
    /\ main_all_results' =
          CacheAtEnd(main_all_results, combined_results, error_messages)
    /\ IF AllFailedCase(combined_results, error_messages)
       THEN /\ status_text' = Status("query failed, try again later", <<>>)
            /\ result_list' = show_results(<<[error |-> Join("; ", error_messages)]>>)
       ELSE IF combined_results = <<>>
       THEN /\ status_text' = Status("query done: no data found", <<>>)
            /\ result_list' = show_results(<<>>)
       ELSE /\ status_text' =
                  IF error_messages # <<>>
                  THEN Status("query done, records (but some identifiers failed): ",
                              NatToStr(Len(combined_results)))
                  ELSE Status("query done, records: ", NatToStr(Len(combined_results)))
            /\ result_list' = apply_filter(combined_results, txt_filter_so)
    /\ TaskEnds
    /\ UNCHANGED <<engine_vars, txt_south, txt_north, txt_filter_so, client_storage,
                   norm_vars>>

\* mutant of TaskException: the handler without lines 449-450
TaskException_StaysBusy ==
    /\ task_pc \in {"south", "north"}
    /\ fetch_pc = "raised"
    /\ status_text' = Status("unexpected error during the query", <<>>)
    /\ result_list' = <<TextCtl(Status("error: ", <<"e">>))>>
    /\ LeaveFetch
    /\ TaskEnds
    /\ UNCHANGED <<txt_south, txt_north, txt_filter_so, client_storage,
                   main_all_results, norm_vars, loading, btn_disabled>>

\* lines 448-459: fetch_data raised, the handler of task()
TaskException ==
    /\ task_pc \in {"south", "north"}
    /\ fetch_pc = "raised"
    /\ loading' = FALSE
    /\ btn_disabled' = FALSE
    /\ status_text' = Status("unexpected error during the query", <<>>)
    /\ result_list' = <<TextCtl(Status("error: ", <<"e">>))>>
    /\ LeaveFetch
    /\ TaskEnds
    /\ UNCHANGED <<txt_south, txt_north, txt_filter_so, client_storage,
                   main_all_results, norm_vars>>

(***************************************************************************)
(* A caller of _parse_json_list alone: one raw row, any of RawRows.        *)
(***************************************************************************)
NoRow == [k \in {} |-> JNull]

\* the key k with value v, or no key when v is Absent
Absent == [t |-> "absent"]

Field(k, v) == IF v = Absent THEN NoRow ELSE [x \in {k} |-> v]

QtyValues ==
    {Absent, JNull, JInt(0), JInt(7), JInt(-5), JList,
     JStr(<<"1", "2">>), JStr(<<"a", "b", "c">>), JStr(<<>>),
     JStr(<<" ", "3", " ">>), JStr(<<"-", "4">>), JStr(<<"+", "6">>)}

DateValues ==
    {Absent, JNull, JInt(20251216), JList, JStr(<<>>),
     JStr(<<"2", "0", "2", "5", "1", "2", "1">>),
     JStr(<<"2", "0", "2", "5", "1", "2", "1", "6", "1", "5", "3", "5">>),
     JStr(<<"2", "0", "2", "5", "1", "2", "1", "6", "1", "5", "3", "5", "4", "5">>),
     JStr(<<"2", "0", "2", "5", "1", "2", "1", "6", " ", "1", "5", "3", "5", "4", "5">>)}

SoNoValues == {Absent, JNull, JStr(<<>>), JStr(<<"A", "1">>)}

RawRows ==
    {Field("packQty1", q) @@ Field("inWareDate1", d) @@ Field("soNo", so)
        @@ [vslName |-> JStr(<<"V">>)] :
        q \in QtyValues, d \in DateValues, so \in SoNoValues}

\* _parse_json_list([raw_row], query_code)
Normalize ==
    /\ norm_out = <<>>
    /\ \E qc \in {<<>>, <<"S">>} : norm_out' = parse_json_list(<<raw_row>>, qc)
    /\ UNCHANGED <<engine_vars, ui_vars, task_vars, raw_row>>

(***************************************************************************)
(* The state after construction, and the specifications.                   *)
(***************************************************************************)
\* lines 172-223, with the identifiers the last session stored
Constructed(last_south, last_north, row) ==
    /\ session = "fresh"
    /\ fetch_pc = "idle"
    /\ vsl_reg_no = <<>>
    /\ query_code = <<>>
    /\ status_callback = FALSE
    /\ all_results = <<>>
    /\ current_page = 1
    /\ fetch_ret = <<>>
    /\ resp = NoResp
    /\ posts = 0
    /\ served = <<>>
    /\ const_total = ConstTotals
    /\ txt_south = last_south
    /\ txt_north = last_north
    /\ txt_filter_so = <<>>
    /\ client_storage = [south |-> last_south, north |-> last_north]
    /\ status_text = Status("ready", <<>>)
    /\ loading = FALSE
    /\ btn_disabled = FALSE
    /\ result_list = <<>>
    /\ main_all_results = <<>>
    /\ task_pc = "none"
    /\ south_code = <<>>
    /\ north_code = <<>>
    /\ data_south = <<>>
    /\ data_north = <<>>
    /\ combined_results = <<>>
    /\ error_messages = <<>>
    /\ raw_row = row
    /\ norm_out = <<>>

Init ==
    \E last_south \in {Strip(t) : t \in SouthInputs},
       last_north \in {Strip(t) : t \in NorthInputs} :
        Constructed(last_south, last_north, NoRow)

Next ==
    \/ Click
    \/ FilterChange
    \/ TaskStart
    \/ TaskFetch
    \/ TaskAnswer
    \/ TaskSouthDone
    \/ TaskMid
    \/ TaskNorthDone
    \/ TaskFinish
    \/ TaskException

Spec == Init /\ [][Next]_vars

\* a step of the thread started at line 461
TaskStep ==
    \/ TaskStart
    \/ TaskFetch
    \/ TaskAnswer
    \/ TaskSouthDone
    \/ TaskMid
    \/ TaskNorthDone
    \/ TaskFinish
    \/ TaskException

\* the clicks and the thread, with the filter field left alone: its
\* handler writes txt_filter_so and result_list only, which no click and no
\* step of the thread tests
NextLive == Click \/ TaskStep

\* the thread is scheduled: a started thread that can take a step takes one
SpecLive == Init /\ [][NextLive]_vars /\ WF_vars(TaskStep)

\* a CustomsQuery of its own, called directly
InitEngine == Constructed(<<>>, <<>>, NoRow)

SpecEngine == InitEngine /\ [][NextEngine]_vars

\* _parse_json_list called on a row of its own
InitNorm == \E row \in RawRows : Constructed(<<>>, <<>>, row)

NextNorm == Normalize

SpecNorm == InitNorm /\ [][NextNorm]_vars

(***************************************************************************)
(* Properties of fetch_data, checked under SpecEngine.                     *)
(***************************************************************************)
Max(a, b) == IF a >= b THEN a ELSE b

CeilDiv(a, b) == (a + b - 1) \div b

RECURSIVE PagesRecords(_, _, _)
\* the records of pages 1..k with counts[p] rows each, in page order
PagesRecords(counts, k, qc) ==
    IF k = 0 THEN <<>>
    ELSE PagesRecords(counts, k - 1, qc)
            \o parse_json_list(ServerRows(k, counts[k]), qc)

\* C1 as stated: against a portal that reports a constant total T and
\* returns min(500, T - 500*(p-1)) rows for page p, a run sends exactly
\* ceil(T/500) POSTs and returns exactly T records.
C1_Orig ==
    fetch_pc = "returned" =>
        \A T \in const_total :
            posts = CeilDiv(T, page_size) /\ Len(fetch_ret) = T

\* C1, amended: the same for T >= 1 (3 POSTs of 500+500+200 rows for
\* T = 1200); for T = 0 the run still sends the POST of page 1, gets no
\* row and returns the empty list.  While such a run is in the loop it has
\* accumulated full pages only and has not reached T.
C1_ConstantTotal ==
    \A T \in const_total :
        /\ fetch_pc = "returned" =>
              /\ posts = Max(1, CeilDiv(T, page_size))
              /\ Len(fetch_ret) = T
              /\ fetch_ret = all_results
              /\ ~IsErrorList(fetch_ret)
              /\ \A p \in 1..Len(served) :
                    served[p] = Min(page_size, T - page_size * (p - 1))
        /\ (fetch_pc = "loop" /\ posts >= 1) =>
              /\ Len(all_results) = page_size * posts
              /\ Len(all_results) < T

C1_Witness ==
    /\ fetch_pc = "returned"
    /\ 1200 \in const_total
    /\ posts = 3
    /\ served = <<500, 500, 200>>
    /\ Len(fetch_ret) = 1200

\* C2: when pages 1..k (k >= 1) were accumulated with rows and the POST of
\* page k+1 fails (exception, non-200 status, unparseable body), the run
\* returns the records of pages 1..k, in page order, and no error entry.
C2_LaterFailureKeepsPages ==
    (/\ fetch_pc = "returned"
     /\ resp.kind \in FailureKinds
     /\ posts > 1
     /\ Len(served) = posts - 1
     /\ \A p \in 1..Len(served) : served[p] >= 1)
    => /\ ~IsErrorList(fetch_ret)
       /\ fetch_ret = PagesRecords(served, posts - 1, query_code)
       /\ Len(fetch_ret) >= posts - 1

C2_Witness ==
    /\ fetch_pc = "returned"
    /\ resp.kind = "exc"
    /\ posts = 3
    /\ served = <<500, 500>>
    /\ Len(fetch_ret) = 1000
    /\ ~IsErrorList(fetch_ret)

\* C3: when the POST of page 1 fails, the run returns the one error entry
\* of that failure and no record, and it has sent no other POST.
C3_FirstFailureAborts ==
    (/\ fetch_pc = "returned"
     /\ resp.kind \in FailureKinds
     /\ posts = 1)
    => /\ fetch_ret = <<ErrorEntry(resp.kind)>>
       /\ IsErrorList(fetch_ret)
       /\ all_results = <<>>
       /\ current_page = 1

C3_Witness ==
    /\ fetch_pc = "returned"
    /\ resp.kind = "badjson"
    /\ posts = 1
    /\ IsErrorList(fetch_ret)

\* C4 as stated: a page with fewer rows than page_size ends the run, so
\* the loop goes on to another page only after a full page.
C4_Orig ==
    (fetch_pc = "loop" /\ served # <<>>) => served[Len(served)] = page_size

C9_Orig ==
    (/\ fetch_pc = "returned"
     /\ resp.kind = "json"
     /\ ~(resp.has_total /\ resp.has_data)
     /\ posts = 1)
    => IsErrorList(fetch_ret)

(***************************************************************************)
(* Properties of the query flow, checked under Spec.                       *)
(***************************************************************************)
\* task() is at its last step, and takes it
FinishStep == task_pc = "finish" /\ task_pc' = "none"

\* the outcome of a run: d is <<>> (not run) or <<the list returned>>
RunFailed(d) == d # <<>> /\ IsErrorList(d[1])

RunRecords(d) == IF d # <<>> /\ ~IsErrorList(d[1]) THEN d[1] ELSE <<>>

\* the records of the runs that returned records, south first
Merged == RunRecords(data_south) \o RunRecords(data_north)

\* the messages of the runs that failed, south first
Failures ==
    (IF RunFailed(data_south)
     THEN <<FailureMessage("south ", south_code, data_south[1])>> ELSE <<>>)
    \o (IF RunFailed(data_north)
        THEN <<FailureMessage("north ", north_code, data_north[1])>> ELSE <<>>)

\* the text m is on the display after the step
ShownNext(m) ==
    \/ Contains(m, status_text')
    \/ \E i \in 1..Len(result_list') : Contains(m, result_list'[i].text)

\* C6 as stated: when one run returned records and the other failed, the
\* query ends with the merged records kept and with the text of the
\* failure message on the display.
C6_Orig ==
    [][(FinishStep /\ Merged # <<>> /\ Failures # <<>>)
        => /\ main_all_results' = Merged
           /\ \A i \in 1..Len(Failures) : ShownNext(Failures[i])]_vars

C8_ValidationFirst ==
    [][(Strip(txt_south') = <<>> /\ Strip(txt_north') = <<>>)
        => /\ task_pc = "none" /\ task_pc' = "none"
           /\ fetch_pc = "idle" /\ fetch_pc' = "idle"
           /\ UNCHANGED <<session, posts, resp, loading, btn_disabled>>
           /\ ~loading /\ ~btn_disabled
           /\ \/ status_text' = Status("enter a south or north code first", <<>>)
              \/ UNCHANGED <<status_text, txt_south, txt_north>>]_vars

C8_Witness ==
    /\ status_text = Status("enter a south or north code first", <<>>)
    /\ txt_south = <<" ">>
    /\ txt_north = <<>>
    /\ session = "used"
    /\ task_pc = "none"
    /\ fetch_pc = "idle"

(***************************************************************************)
(* Properties of _parse_json_list, checked under SpecNorm.                 *)
(***************************************************************************)
\* the decimal text of a non-negative integer
IsNatText(str) == AllDigits(str) /\ str = NatToStr(DigitsToNat(str))

\* the raw quantities C10 names: absent, null, 0, "12", "abc", -5
C10_Quantities ==
    {Absent, JNull, JInt(0), JStr(<<"1", "2">>), JStr(<<"a", "b", "c">>), JInt(-5)}

RawQty == IF "packQty1" \in DOMAIN raw_row THEN raw_row["packQty1"] ELSE Absent

\* C10 as stated: for each of these raw quantities the normalized quantity
\* is the decimal text of a non-negative integer, and "abc" gives "0".
C10_Orig ==
    (norm_out # <<>> /\ RawQty \in C10_Quantities)
    => /\ IsNatText(norm_out[1].qty)
       /\ RawQty = JStr(<<"a", "b", "c">>) => norm_out[1].qty = <<"0">>

RawDate ==
    IF "inWareDate1" \in DOMAIN raw_row THEN raw_row["inWareDate1"] ELSE Absent

\* "20251216153545", "20251216 153545" and "2025/12/16 15:35"
Stamp14 == <<"2", "0", "2", "5", "1", "2", "1", "6", "1", "5", "3", "5", "4", "5">>

Stamp15 == SubSeq(Stamp14, 1, 8) \o <<" ">> \o SubSeq(Stamp14, 9, 14)

Shown1535 ==
    <<"2", "0", "2", "5", "/", "1", "2", "/", "1", "6", " ", "1", "5", ":", "3", "5">>

\* a raw date that is absent, not a string, or a string under 12 characters
NoUsableDate ==
    RawDate = Absent \/ RawDate.t # "str" \/ Len(RawDate.s) < 12

\* C11 as stated: a raw date that is absent, not a string or shorter than 12
\* characters gives the marker, and the 14 digits "20251216153545" give
\* "2025/12/16 15:35".
C11_Orig ==
    norm_out # <<>>
    => /\ NoUsableDate => norm_out[1].date = NoTimeYet
       /\ RawDate = JStr(Stamp14) => norm_out[1].date = Shown1535

\* C11, amended: the marker as stated; "2025/12/16 15:35" is the output for
\* "20251216 153545", the date and the time with one character between
\* them, which is skipped.  The 14 digits without that character give
\* "2025/12/16 53:54".
C11_Timestamp ==
    norm_out # <<>>
    => /\ NoUsableDate => norm_out[1].date = NoTimeYet
       /\ RawDate = JStr(Stamp15) => norm_out[1].date = Shown1535
       /\ RawDate = JStr(Stamp14)
            => norm_out[1].date =
                 SubSeq(Shown1535, 1, 11) \o <<"5", "3", ":", "5", "4">>

C11_Witness ==
    /\ norm_out # <<>>
    /\ RawDate = JStr(Stamp15)
    /\ norm_out[1].date = Shown1535

\* a 16-character text of the form YYYY/MM/DD HH:MM
WellFormedTime(str) ==
    /\ Len(str) = 16
    /\ str[5] = "/" /\ str[8] = "/" /\ str[11] = " " /\ str[14] = ":"
    /\ \A i \in (1..16) \ {5, 8, 11, 14} : str[i] \notin {"/", " ", ":"}

\* C12 as stated: the normalized date of every raw row is the marker or a
\* well-formed 16-character text, also for a raw string of 12 characters.
C12_Orig ==
    norm_out # <<>>
    => \/ norm_out[1].date = NoTimeYet
       \/ WellFormedTime(norm_out[1].date)

RawSoNo == IF "soNo" \in DOMAIN raw_row THEN raw_row["soNo"] ELSE Absent

\* C13 as stated: the order number is the raw soNo when it is present and
\* not empty, and the "no S/O" marker when it is absent, null or empty.
C13_Orig ==
    norm_out # <<>>
    => norm_out[1].so_no =
          IF RawSoNo # Absent /\ Truthy(RawSoNo) THEN RawSoNo ELSE JStr(NoSO)

(***************************************************************************)
(* Properties of the session and of the thread, checked under Spec.        *)
(***************************************************************************)
\* fetch_data is entered by this step
RunStarts == fetch_pc = "idle" /\ fetch_pc' = "loop"

\* C14 as stated: every run of the engine has a session of its own, so the
\* session a run starts with has been used by no earlier run.
C14_Orig == [][RunStarts => session = "fresh"]_vars

\* the display: what the interactive context shows and the cache it reads
display == <<status_text, loading, btn_disabled, result_list, main_all_results>>

\* a step of the thread running task(): the thread moves, in task() or in
\* the fetch_data call it is in
ThreadStep ==
    /\ task_pc # "none"
    /\ <<task_pc, fetch_pc>>' # <<task_pc, fetch_pc>>

\* C15 as stated: the thread never writes the display; it is written by
\* the handlers of the interactive context only.
C15_Orig == [][ThreadStep => UNCHANGED display]_vars

(***************************************************************************)
(* Properties of the merged result, checked under Spec.                    *)
(***************************************************************************)
SouthReturns == task_pc = "south" /\ task_pc' = "mid"

NorthReturns == task_pc = "north" /\ task_pc' = "finish"

\* the list a run returns holds the records of its pages, in page order
InPageOrder(code) == fetch_ret = PagesRecords(served, Len(served), code)

\* C16: a run that returns records returns those of its pages 1..k in page
\* order; the south run's records are merged first and the north run's
\* after them, so that at the end of task() the merged list is the south
\* records followed by the north records, each once, and that list becomes
\* the cache.
C16_MergeOrder ==
    [][/\ (SouthReturns /\ ~IsErrorList(fetch_ret))
            => /\ InPageOrder(south_code)
               /\ combined_results' = fetch_ret
       /\ (NorthReturns /\ ~IsErrorList(fetch_ret))
            => /\ InPageOrder(north_code)
               /\ combined_results' = RunRecords(data_south) \o fetch_ret
       /\ FinishStep
            => /\ combined_results = Merged
               /\ Merged # <<>> => main_all_results' = Merged]_vars

\* two pages of the south run, then a north record, merged in that order
C16_Witness ==
    /\ task_pc = "finish"
    /\ Len(RunRecords(data_south)) = 2
    /\ Len(RunRecords(data_north)) = 1
    /\ combined_results = Merged
    /\ combined_results[1].so_no = JStr(<<"P", "1", "-", "1">>)
    /\ combined_results[2].so_no = JStr(<<"P", "2", "-", "1">>)
    /\ combined_results[2].query_code = south_code
    /\ combined_results[3].query_code = north_code

\* every record of the list carries the identifier code
TaggedWith(list, code) ==
    \A i \in 1..Len(list) : list[i].query_code = code

\* C17: the records a run accumulates and returns carry the identifier of
\* that run, which is not empty; so do the records task() keeps of each
\* run, and every record of the cache carries an identifier that is not
\* empty.
C17_SourceIdentifier ==
    /\ task_pc = "south"
         => /\ south_code # <<>>
            /\ TaggedWith(all_results, south_code)
            /\ ~IsErrorList(fetch_ret) => TaggedWith(fetch_ret, south_code)
    /\ task_pc = "north"
         => /\ north_code # <<>>
            /\ TaggedWith(all_results, north_code)
            /\ ~IsErrorList(fetch_ret) => TaggedWith(fetch_ret, north_code)
    /\ TaggedWith(RunRecords(data_south), south_code)
    /\ TaggedWith(RunRecords(data_north), north_code)
    /\ \A i \in 1..Len(combined_results) :
          combined_results[i].query_code \in {south_code, north_code} \ {<<>>}
    /\ \A i \in 1..Len(main_all_results) :
          main_all_results[i].query_code \in {<<"S">>, <<"N">>}

\* a cache of two south pages and a north record
C17_Witness ==
    /\ task_pc = "none"
    /\ Len(main_all_results) = 3
    /\ main_all_results[1].query_code = <<"S">>
    /\ main_all_results[2].query_code = <<"S">>
    /\ main_all_results[2].so_no = JStr(<<"P", "2", "-", "1">>)
    /\ main_all_results[3].query_code = <<"N">>

(***************************************************************************)
(* The accumulator of fetch_data, checked under SpecEngine.                *)
(***************************************************************************)
\* C18: while page n > 1 is requested or its answer handled, the
\* accumulator is not empty; so when a request fails, `not all_results`
\* holds exactly when the page is page 1; and a returned list is the one
\* error entry of a failed page 1 or a list without any error entry.
C18_AccumulatorNonEmpty ==
    /\ (fetch_pc \in {"loop", "answered"} /\ current_page > 1)
         => all_results # <<>>
    /\ (fetch_pc = "answered" /\ resp.kind \in FailureKinds)
         => (all_results = <<>> <=> current_page = 1)
    /\ fetch_pc = "returned"
         => \/ /\ resp.kind \in FailureKinds
               /\ current_page = 1
               /\ fetch_ret = <<ErrorEntry(resp.kind)>>
            \/ \A i \in 1..Len(fetch_ret) : "error" \notin DOMAIN fetch_ret[i]

\* the request of page 2 has failed, with the records of page 1 kept
C18_Witness ==
    /\ fetch_pc = "answered"
    /\ current_page = 2
    /\ resp.kind = "status"
    /\ Len(all_results) = page_size

(***************************************************************************)
(* Properties of the cache and of the button, checked under Spec.          *)
(***************************************************************************)
\* a step of the on_change handler of the filter field
FilterStep ==
    /\ UNCHANGED <<task_pc, fetch_pc, status_text, txt_south, txt_north, loading>>
    /\ <<txt_filter_so, result_list>>' # <<txt_filter_so, result_list>>

\* C19: a query that ends with no record and a failed run leaves the
\* cache as it was; one that ends with no record and no failure empties
\* it; one that ends with records replaces it by them.  A change of the
\* filter shows the cache filtered, whatever the last query showed.
C19_CacheFrame ==
    [][/\ FinishStep
            => /\ (Merged = <<>> /\ Failures # <<>>)
                    => /\ main_all_results' = main_all_results
                       /\ result_list' =
                            <<TextCtl(Status("error: ", Join("; ", Failures)))>>
               /\ (Merged = <<>> /\ Failures = <<>>) => main_all_results' = <<>>
               /\ Merged # <<>> => main_all_results' = Merged
       /\ FilterStep
            => /\ UNCHANGED main_all_results
               /\ result_list' = apply_filter(main_all_results, txt_filter_so')]_vars

\* after a query with records, a query whose runs all failed, and then a
\* change of the filter: the status is the failure and the list shows the
\* records of the earlier query
C19_Witness ==
    /\ task_pc = "none"
    /\ status_text = Status("query failed, try again later", <<>>)
    /\ main_all_results # <<>>
    /\ result_list = [i \in 1..Len(main_all_results) |-> Card(main_all_results[i])]

\* the engine run the thread is in has used up the pages the model follows
\* it for: the run that does not return
RunCutOff == fetch_pc = "loop" /\ current_page > AppMaxPages

\* the terminal paths of task(), by the status they leave
EndStatus ==
    {Status("query failed, try again later", <<>>),
     Status("query done: no data found", <<>>),
     Status("unexpected error during the query", <<>>)}
    \cup {Status(m, NatToStr(n)) :
            m \in {"query done, records: ",
                   "query done, records (but some identifiers failed): "},
            n \in 1..(2 * AppMaxPages)}

====
